---------------------------- MODULE Spec2Model ----------------------------
(***************************************************************************)
(* Model of pythonProject/app.py: the demand projection, the climate       *)
(* scenario, the generation-mix simulation and the loop that runs them     *)
(* year by year.                                                           *)
(*                                                                         *)
(* Python's float values are modelled as exact rationals [n, d] in lowest  *)
(* terms (d > 0); IEEE-754 rounding is not modelled.  The record with      *)
(* d = 0 stands for the ZeroDivisionError a float division by 0 raises.    *)
(***************************************************************************)
EXTENDS Integers, Sequences, FiniteSets, TLC

VARIABLES
    pc,           \* position of the run: which statement comes next
    region,       \* app.py:68  selected region
    scenario,     \* app.py:71  selected climate scenario
    years,        \* app.py:74  horizon
    growth_rate,  \* app.py:75  annual growth rate (rational)
    df_proj,      \* app.py:80  the projection DataFrame, column-wise
    results,      \* app.py:83  list of result records
    row,          \* app.py:84  1-based position of iterrows()
    demanda,      \* app.py:43  demand handed to a direct call of simulate_mix
    factor,       \* app.py:43  climate factor handed to a direct call
    sim,          \* app.py:58  what the direct call returned
    outcome       \* how the direct call ended: "none", "returned" or an error

vars == <<pc, region, scenario, years, growth_rate, df_proj, results, row,
          demanda, factor, sim, outcome>>

-----------------------------------------------------------------------------
(* Bounds of the model                                                     *)

MaxYears == 5
MaxDemandK == 30
MaxFactorTenths == 20

-----------------------------------------------------------------------------
(* Exact rational arithmetic standing for the float arithmetic of app.py   *)

Abs(x) == IF x < 0 THEN -x ELSE x

RECURSIVE GCD(_, _)
GCD(a, b) == IF b = 0 THEN a ELSE GCD(b, a % b)

LCM(a, b) == (a \div GCD(a, b)) * b

Rat(n, d) == LET g == GCD(Abs(n), d) IN [n |-> n \div g, d |-> d \div g]

FromInt(k) == [n |-> k, d |-> 1]

Zero == FromInt(0)

One == FromInt(1)

ZeroDivisionError == [n |-> 0, d |-> 0]

RAdd(a, b) ==
    LET l == LCM(a.d, b.d)
    IN  Rat(a.n * (l \div a.d) + b.n * (l \div b.d), l)

RNeg(a) == [n |-> -a.n, d |-> a.d]

RSub(a, b) == RAdd(a, RNeg(b))

RMul(a, b) ==
    LET g1 == GCD(Abs(a.n), b.d)
        g2 == GCD(Abs(b.n), a.d)
    IN  [n |-> (a.n \div g1) * (b.n \div g2), d |-> (a.d \div g2) * (b.d \div g1)]

RDiv(a, b) ==
    IF b.n = 0 THEN ZeroDivisionError
    ELSE IF b.n > 0 THEN RMul(a, [n |-> b.d, d |-> b.n])
    ELSE RMul(a, [n |-> -b.d, d |-> -b.n])

RLe(a, b) ==
    LET l == LCM(a.d, b.d)
    IN  a.n * (l \div a.d) <= b.n * (l \div b.d)

RLt(a, b) == ~RLe(b, a)

RMin(a, b) == IF RLt(b, a) THEN b ELSE a

RMax(a, b) == IF RLt(a, b) THEN b ELSE a

RECURSIVE RPow(_, _)
RPow(a, i) == IF i = 0 THEN One ELSE RMul(a, RPow(a, i - 1))

-----------------------------------------------------------------------------
(* app.py:12-25  the static tables                                         *)

Regions == {"Costa", "Sierra", "Selva"}

Techs == {"hydro", "solar", "thermal"}

Scenarios == {"Optimista", "Normal", "Critico"}

BASE_DEMANDA == [Costa |-> 12000, Sierra |-> 7000, Selva |-> 4000]

CAPACITIES ==
    [Costa  |-> [hydro |-> 15000, solar |-> 8000, thermal |-> 12000],
     Sierra |-> [hydro |-> 20000, solar |-> 3000, thermal |-> 8000],
     Selva  |-> [hydro |-> 10000, solar |-> 1000, thermal |-> 5000]]

EMISSION_FACTORS ==
    [hydro |-> Rat(2, 100), solar |-> Rat(3, 100), thermal |-> Rat(8, 10)]

COSTS == [hydro |-> FromInt(30), solar |-> FromInt(40), thermal |-> FromInt(90)]


\* mutant: the solar and thermal shares exchanged
mixSharesSwapped ==
    [hydro |-> Rat(5, 10), solar |-> Rat(3, 10), thermal |-> Rat(2, 10)]

mix == [hydro |-> Rat(5, 10), solar |-> Rat(2, 10), thermal |-> Rat(3, 10)]

AnchorYear == 2025

-----------------------------------------------------------------------------
(* app.py:30-35  project_demand                                            *)

\* mutant: simple instead of compound growth
DemandAtSimple(base, g, i) ==
    RMul(FromInt(base), RAdd(One, RMul(g, FromInt(i))))

\* app.py:34  base * ((1 + growth_rate) ** i)
DemandAt(base, g, i) == RMul(FromInt(base), RPow(RAdd(One, g), i))

\* app.py:33  pd.date_range("2025-01-01", periods=years, freq="Y").year
YearLabels(n) == IF n <= 0 THEN <<>> ELSE [i \in 1..n |-> AnchorYear + (i - 1)]

\* app.py:34  the list comprehension over range(years)
DemandList(base, g, n) ==
    IF n <= 0 THEN <<>> ELSE [i \in 1..n |-> DemandAt(base, g, i - 1)]

project_demand(r, n, g) ==
    LET base == BASE_DEMANDA[r]
    IN  [Anio |-> YearLabels(n), Demanda_MWh |-> DemandList(base, g, n)]

-----------------------------------------------------------------------------
(* app.py:37-41  apply_climate_scenario                                    *)

\* mutant: the factors of Optimista and Critico exchanged
ScenarioFactorSwapped ==
    [Optimista |-> Rat(8, 10), Normal |-> Rat(10, 10), Critico |-> Rat(11, 10)]

ScenarioFactor ==
    [Optimista |-> Rat(11, 10), Normal |-> Rat(10, 10), Critico |-> Rat(8, 10)]

\* df["climate_factor"] = factor broadcasts the scalar over every row
apply_climate_scenario(df, s) ==
    [Anio |-> df.Anio,
     Demanda_MWh |-> df.Demanda_MWh,
     climate_factor |-> [i \in 1..Len(df.Anio) |-> ScenarioFactor[s]]]

-----------------------------------------------------------------------------
(* app.py:43-58  simulate_mix                                              *)

\* app.py:48  gen = {k: demanda * mix[k] for k in mix}
RawShare(d, k) == RMul(d, mix[k])

\* app.py:51  gen[k] = min(gen[k] * factor, caps[k])
GenRenewable(raw, f, cap) == RMin(RMul(raw, f), FromInt(cap))

\* mutant: thermal takes its initial 0.3 share instead of the residual demand
GenThermalFromShare(d, hydro, solar, cap) ==
    RMin(RMul(d, Rat(3, 10)), FromInt(cap))

\* app.py:52  min(demanda - (gen["hydro"] + gen["solar"]), caps["thermal"])
GenThermal(d, hydro, solar, cap) ==
    RMin(RSub(d, RAdd(hydro, solar)), FromInt(cap))

\* app.py:53  sum(gen.values())
SumGen(gen) == RAdd(RAdd(gen.hydro, gen.solar), gen.thermal)

\* mutant: the shortfall is taken before thermal generation is counted
DeficitBeforeThermal(d, gen) ==
    RMax(Zero, RSub(d, RAdd(gen.hydro, gen.solar)))

\* app.py:53  deficit = max(0, demanda - sum(gen.values()))
Deficit(d, gen) == RMax(Zero, RSub(d, SumGen(gen)))

\* app.py:54  emissions = sum(gen[t] * EMISSION_FACTORS[t] for t in gen)
Emissions(gen) ==
    RAdd(RAdd(RMul(gen.hydro, EMISSION_FACTORS.hydro),
              RMul(gen.solar, EMISSION_FACTORS.solar)),
         RMul(gen.thermal, EMISSION_FACTORS.thermal))

\* app.py:55  cost = sum(gen[t] * COSTS[t] for t in gen)
Cost(gen) ==
    RAdd(RAdd(RMul(gen.hydro, COSTS.hydro), RMul(gen.solar, COSTS.solar)),
         RMul(gen.thermal, COSTS.thermal))

\* mutant: the division without its guard
CmpUnguarded(cost, d) == RDiv(cost, d)

\* app.py:57  cmp = cost / demanda if demanda > 0 else 0
Cmp(cost, d) == IF RLt(Zero, d) THEN RDiv(cost, d) ELSE Zero

simulate_mix(r, d, f) ==
    LET caps    == CAPACITIES[r]
        hydro   == GenRenewable(RawShare(d, "hydro"), f, caps.hydro)
        solar   == GenRenewable(RawShare(d, "solar"), f, caps.solar)
        thermal == GenThermal(d, hydro, solar, caps.thermal)
        gen     == [hydro |-> hydro, solar |-> solar, thermal |-> thermal]
        cost    == Cost(gen)
    IN  [gen |-> gen,
         deficit |-> Deficit(d, gen),
         emissions |-> Emissions(gen),
         cost |-> cost,
         cmp |-> Cmp(cost, d)]

\* a call raises when the division of line 57 divides by zero
Raises(s) == s.cmp = ZeroDivisionError

-----------------------------------------------------------------------------
(* app.py:68-98  the script: widgets, projection, scenario, loop           *)

\* app.py:75  growth_rate = slider value / 100.  The slider offers 1..10 %;
\* 0 %, 50 % and 100 % are run as well: project_demand takes any rate, and
\* the larger rates bring demand above capacity within MaxYears.
GrowthRates == {Rat(0, 100), Rat(10, 100), Rat(50, 100), Rat(100, 100)}

None == <<>>

NoFrame == [Anio |-> <<>>, Demanda_MWh |-> <<>>]

\* app.py:86-96  the record appended for one row
ResultRecord(anio, d, s) ==
    [Anio |-> anio,
     Demanda_MWh |-> d,
     Hidro_MWh |-> s.gen.hydro,
     Solar_MWh |-> s.gen.solar,
     Termica_MWh |-> s.gen.thermal,
     Deficit |-> s.deficit,
     Emisiones_tCO2e |-> s.emissions,
     Costo_USD |-> s.cost,
     CMP_USD_MWh |-> s.cmp]

\* mutant: the record is inserted at the front of the list
AppendResultFront(rs, rec) == <<rec>> \o rs

\* app.py:86  results.append(...)
AppendResult(rs, rec) == Append(rs, rec)

\* app.py:68-75  the state once the widgets have returned their values
\* (the years slider offers 5..20; shorter horizons are run as well)
Init ==
    /\ pc = "project"
    /\ region \in Regions
    /\ scenario \in Scenarios
    /\ years \in 1..MaxYears
    /\ growth_rate \in GrowthRates
    /\ df_proj = NoFrame
    /\ results = <<>>
    /\ row = 0
    /\ demanda = Zero
    /\ factor = One
    /\ sim = None
    /\ outcome = "none"

\* app.py:80
ProjectDemand ==
    /\ pc = "project"
    /\ df_proj' = project_demand(region, years, growth_rate)
    /\ pc' = "scenario"
    /\ UNCHANGED <<region, scenario, years, growth_rate, results, row,
                   demanda, factor, sim, outcome>>

\* app.py:81-84  the scenario column, results = [] and the start of iterrows()
ApplyClimateScenario ==
    /\ pc = "scenario"
    /\ df_proj' = apply_climate_scenario(df_proj, scenario)
    /\ results' = <<>>
    /\ row' = 1
    /\ pc' = "loop"
    /\ UNCHANGED <<region, scenario, years, growth_rate,
                   demanda, factor, sim, outcome>>

\* app.py:84-96  one pass of the loop body
SimulateRow ==
    /\ pc = "loop"
    /\ row <= Len(df_proj.Anio)
    /\ LET d == df_proj.Demanda_MWh[row]
           s == simulate_mix(region, d, df_proj.climate_factor[row])
       IN  IF Raises(s)
           THEN /\ pc' = "error"
                /\ UNCHANGED <<results, row>>
           ELSE /\ results' = AppendResult(results, ResultRecord(df_proj.Anio[row], d, s))
                /\ row' = row + 1
                /\ pc' = pc
    /\ UNCHANGED <<region, scenario, years, growth_rate, df_proj,
                   demanda, factor, sim, outcome>>

\* app.py:98  iterrows() is exhausted: df_results = pd.DataFrame(results)
BuildResults ==
    /\ pc = "loop"
    /\ row > Len(df_proj.Anio)
    /\ pc' = "done"
    /\ UNCHANGED <<region, scenario, years, growth_rate, df_proj, results, row,
                   demanda, factor, sim, outcome>>

Next == ProjectDemand \/ ApplyClimateScenario \/ SimulateRow \/ BuildResults

Spec == Init /\ [][Next]_vars

-----------------------------------------------------------------------------
(* simulate_mix called on its own, on any region, demand and factor        *)

Demands ==
    {FromInt(k * 1000) : k \in -2..MaxDemandK}
        \cup {Rat(k * 1000 + 1, 3) : k \in 0..MaxDemandK}

Factors == {Rat(t, 10) : t \in -1..MaxFactorTenths}

InitSim ==
    /\ pc = "call_sim"
    /\ region \in Regions
    /\ demanda \in Demands
    /\ factor \in Factors
    /\ scenario = "Normal"
    /\ years = 0
    /\ growth_rate = Zero
    /\ df_proj = NoFrame
    /\ results = <<>>
    /\ row = 0
    /\ sim = None
    /\ outcome = "none"

\* app.py:43-58  one call; the code has no check of demanda or factor
SimulateMixCall ==
    /\ pc = "call_sim"
    /\ LET s == simulate_mix(region, demanda, factor)
       IN  IF Raises(s)
           THEN sim' = None /\ outcome' = "ZeroDivisionError"
           ELSE sim' = s /\ outcome' = "returned"
    /\ pc' = "done_sim"
    /\ UNCHANGED <<region, scenario, years, growth_rate, df_proj, results, row,
                   demanda, factor>>

NextSim == SimulateMixCall

SpecSim == InitSim /\ [][NextSim]_vars

-----------------------------------------------------------------------------
(* project_demand called on its own, on any region, horizon and growth     *)

ProjGrowthRates ==
    {Rat(-100, 100), Rat(-50, 100), Rat(0, 100), Rat(4, 100), Rat(10, 100),
     Rat(50, 100), Rat(100, 100)}

InitProj ==
    /\ pc = "call_proj"
    /\ region \in Regions
    /\ years \in 0..MaxYears
    /\ growth_rate \in ProjGrowthRates
    /\ scenario = "Normal"
    /\ df_proj = NoFrame
    /\ results = <<>>
    /\ row = 0
    /\ demanda = Zero
    /\ factor = One
    /\ sim = None
    /\ outcome = "none"

\* app.py:30-35  one call; the code has no check of years.  For years = 0
\* range(years) and date_range(periods=0) are both empty.  (What date_range
\* does with a negative periods is decided inside pandas and is left out.)
ProjectDemandCall ==
    /\ pc = "call_proj"
    /\ df_proj' = project_demand(region, years, growth_rate)
    /\ outcome' = "returned"
    /\ pc' = "done_proj"
    /\ UNCHANGED <<region, scenario, years, growth_rate, results, row,
                   demanda, factor, sim>>

NextProj == ProjectDemandCall

SpecProj == InitProj /\ [][NextProj]_vars

-----------------------------------------------------------------------------
(* Properties                                                              *)

\* a direct call of simulate_mix has ended, on inputs the contract allows
SimValid == pc = "done_sim" /\ RLe(Zero, demanda) /\ RLt(Zero, factor)

CapOf(k) == FromInt(CAPACITIES[region][k])

\* C1: for every region, every demand >= 0 and every climate factor > 0, each
\* of hydro, solar and thermal generation returned by simulate_mix is >= 0 and
\* <= that technology's capacity in the region.
C1_GenWithinCapacity ==
    SimValid =>
        /\ outcome = "returned"
        /\ \A k \in Techs :
              RLe(Zero, sim.gen[k]) /\ RLe(sim.gen[k], CapOf(k))

\* C2: a call of simulate_mix with demand < 0 or climate factor <= 0 ends in
\* an InvalidParameter error and returns no simulation result.
C2_RejectsInvalidInput ==
    (pc = "done_sim" /\ (RLt(demanda, Zero) \/ RLe(factor, Zero))) =>
        (outcome = "InvalidParameter" /\ sim = None)

\* C3: a call of project_demand with years <= 0 ends in an error before any
\* output is produced; it never returns an empty or malformed sequence.
C3_RejectsNonPositiveYears ==
    (pc = "done_proj" /\ years <= 0) =>
        (outcome # "returned" /\ df_proj = NoFrame)

\* C4: for valid inputs the deficit returned by simulate_mix is
\* max(0, demand - (hydro + solar + thermal)) over the returned (clamped)
\* generation, and is never negative.
C4_DeficitIsClampedShortfall ==
    SimValid =>
        /\ outcome = "returned"
        /\ RLe(Zero, sim.deficit)
        /\ LET gap == RSub(RSub(RSub(demanda, sim.gen.hydro), sim.gen.solar),
                           sim.gen.thermal)
           IN  sim.deficit = IF RLt(Zero, gap) THEN gap ELSE Zero

C4_Witness == SimValid /\ outcome = "returned" /\ RLt(Zero, sim.deficit)

\* C5: with demand = 0 and a climate factor > 0, simulate_mix returns (no
\* division by zero) marginal cost 0 and hydro, solar and thermal all 0.
C5_ZeroDemand ==
    (pc = "done_sim" /\ demanda = Zero /\ RLt(Zero, factor)) =>
        /\ outcome = "returned"
        /\ sim.cmp = Zero
        /\ \A k \in Techs : sim.gen[k] = Zero

C5_Witness ==
    /\ pc = "done_sim" /\ demanda = Zero /\ RLt(Zero, factor)
    /\ outcome = "returned" /\ sim.cost = Zero

\* C6: for years >= 1 and growth rate >= -1 the demand sequence returned by
\* project_demand has row 0 = BASE_DEMANDA[region], every consecutive pair
\* satisfies demand(i+1) = demand(i) * (1 + growth_rate), and with growth
\* rate 0 every year equals the base demand.
C6_CompoundGrowth ==
    (pc = "done_proj" /\ years >= 1 /\ RLe(FromInt(-1), growth_rate)) =>
        /\ outcome = "returned"
        /\ Len(df_proj.Demanda_MWh) = years
        /\ df_proj.Demanda_MWh[1] = FromInt(BASE_DEMANDA[region])
        /\ \A i \in 1..(years - 1) :
              df_proj.Demanda_MWh[i + 1] =
                  RMul(df_proj.Demanda_MWh[i], RAdd(One, growth_rate))
        /\ growth_rate = Zero =>
              \A i \in 1..years :
                  df_proj.Demanda_MWh[i] = FromInt(BASE_DEMANDA[region])

C6_Witness ==
    /\ pc = "done_proj" /\ outcome = "returned"
    /\ years >= 3
    /\ growth_rate = Rat(4, 100)
    /\ RLt(df_proj.Demanda_MWh[2], df_proj.Demanda_MWh[3])

\* C7: simulate_mix computes hydro = min(0.5 * demand * factor, cap_hydro),
\* solar = min(0.2 * demand * factor, cap_solar), thermal = min(demand -
\* (hydro + solar), cap_thermal) with no climate factor on thermal, and
\* emissions and cost as the sums of generation times emission factor and
\* unit cost.  Costa, 12000, 1.0 gives hydro 6000, solar 2400, thermal 3600,
\* deficit 0, emissions 3072, cost 600000, marginal cost 50; Selva, 4000, 0.8
\* gives hydro 1600, solar 640, thermal 1760, deficit 0.
C7_ReferenceMix ==
    (SimValid /\ outcome = "returned") =>
        /\ sim.gen.hydro =
              RMin(RMul(RMul(Rat(1, 2), demanda), factor), CapOf("hydro"))
        /\ sim.gen.solar =
              RMin(RMul(RMul(Rat(1, 5), demanda), factor), CapOf("solar"))
        /\ sim.gen.thermal =
              RMin(RSub(demanda, RAdd(sim.gen.hydro, sim.gen.solar)),
                   CapOf("thermal"))
        /\ RMul(sim.emissions, FromInt(100)) =
              RAdd(RAdd(RMul(sim.gen.hydro, FromInt(2)),
                        RMul(sim.gen.solar, FromInt(3))),
                   RMul(sim.gen.thermal, FromInt(80)))
        /\ sim.cost =
              RAdd(RAdd(RMul(sim.gen.hydro, FromInt(30)),
                        RMul(sim.gen.solar, FromInt(40))),
                   RMul(sim.gen.thermal, FromInt(90)))
        /\ (region = "Costa" /\ demanda = FromInt(12000) /\ factor = One) =>
              /\ sim.gen = [hydro |-> FromInt(6000), solar |-> FromInt(2400),
                            thermal |-> FromInt(3600)]
              /\ sim.deficit = Zero
              /\ sim.emissions = FromInt(3072)
              /\ sim.cost = FromInt(600000)
              /\ sim.cmp = FromInt(50)
        /\ (region = "Selva" /\ demanda = FromInt(4000) /\ factor = Rat(8, 10)) =>
              /\ sim.gen = [hydro |-> FromInt(1600), solar |-> FromInt(640),
                            thermal |-> FromInt(1760)]
              /\ sim.deficit = Zero

C7_Witness ==
    /\ SimValid /\ outcome = "returned"
    /\ region = "Selva" /\ demanda = FromInt(4000) /\ factor = Rat(8, 10)
    /\ sim.gen.thermal = FromInt(1760)

\* the climate factor each scenario fixes, as the claim states it
C8_Factor(s) ==
    IF s = "Optimista" THEN Rat(11, 10)
    ELSE IF s = "Normal" THEN One ELSE Rat(8, 10)

\* C8: the loop produces exactly `years` records, one per projection row and
\* in the same order; record i carries year 2025 + i and the demand of row i
\* unchanged, and every record is computed with the one climate factor the
\* scenario fixes (Optimista 1.1, Normal 1.0, Critico 0.8).
C8_RecordsAlignedWithRows ==
    /\ pc = "loop" => Len(results) = row - 1
    /\ pc = "done" => Len(results) = years
    /\ pc \in {"loop", "done"} =>
          /\ Len(df_proj.Anio) = years
          /\ \A i \in 1..Len(results) :
                /\ results[i].Anio = 2025 + (i - 1)
                /\ results[i].Demanda_MWh = df_proj.Demanda_MWh[i]
                /\ df_proj.climate_factor[i] = C8_Factor(scenario)
                /\ results[i].Hidro_MWh =
                      RMin(RMul(RMul(Rat(1, 2), df_proj.Demanda_MWh[i]),
                                C8_Factor(scenario)),
                           CapOf("hydro"))
          /\ \A i \in 1..(Len(results) - 1) :
                results[i].Anio < results[i + 1].Anio

C8_Witness ==
    /\ pc = "done" /\ years >= 3 /\ Len(results) = years
    /\ scenario = "Critico"
    /\ growth_rate = Rat(10, 100)
    /\ results[3].Anio = 2027

\* C9: for valid inputs the total generation returned by simulate_mix never
\* exceeds demand, hydro + solar + thermal + deficit = demand exactly, and a
\* positive deficit occurs only when thermal equals the thermal capacity.
C9_EnergyBalance ==
    (SimValid /\ outcome = "returned") =>
        LET total == RAdd(RAdd(sim.gen.hydro, sim.gen.solar), sim.gen.thermal)
        IN  /\ RLe(total, demanda)
            /\ RAdd(total, sim.deficit) = demanda
            /\ RLt(Zero, sim.deficit) => sim.gen.thermal = CapOf("thermal")

C9_Witness ==
    /\ SimValid /\ outcome = "returned"
    /\ RLt(Zero, sim.deficit)
    /\ sim.gen.thermal = CapOf("thermal")
    /\ RLt(sim.gen.hydro, CapOf("hydro"))

\* C10: in a run of the loop with growth rate >= 0 the deficit is
\* non-decreasing from one year to the next, and once a year has deficit > 0
\* every later year of the horizon has deficit > 0.
C10_DeficitPersists ==
    (pc \in {"loop", "done"} /\ RLe(Zero, growth_rate)) =>
        /\ \A i \in 1..(Len(results) - 1) :
              RLe(results[i].Deficit, results[i + 1].Deficit)
        /\ \A i \in 1..Len(results) : \A j \in i..Len(results) :
              RLt(Zero, results[i].Deficit) => RLt(Zero, results[j].Deficit)

C10_Witness ==
    /\ pc = "done" /\ Len(results) >= 3
    /\ results[1].Deficit = Zero
    /\ \E i \in 2..(Len(results) - 1) :
          /\ RLt(Zero, results[i].Deficit)
          /\ RLt(results[i].Deficit, results[i + 1].Deficit)

=============================================================================
